---- MODULE Spec2Model ----
(***************************************************************************)
(* The two build scripts of rs-egc:                                        *)
(*   scripts/download_egc_data.py (with scripts/download_ucd.py): reads    *)
(*     the UCD records in order, classifies each with get_egc_enum, merges *)
(*     adjacent equal-valued spans, drops the ranges that touch the        *)
(*     precomposed Hangul block and writes the table RANGES.               *)
(*   scripts/download_test_data.py: parses GraphemeBreakTest.txt lines     *)
(*     into (line number, text, break offsets) and writes TEST_CASES.      *)
(* One run executes one script; `script` says which.                       *)
(*                                                                         *)
(* A UCD record is its parsed span and its three attributes.  A corpus     *)
(* line is the sequence of its whitespace-separated tokens after the       *)
(* comment has been cut and the line trimmed (tokens one space apart); a   *)
(* token is a sequence of characters.  The two marker literals of          *)
(* download_test_data.py are the division sign U+00F7 and the              *)
(* multiplication sign U+00D7, one character each (line[2:-2] cuts the     *)
(* marker and one space at either end).                                    *)
(***************************************************************************)
EXTENDS Integers, Sequences, FiniteSets, TLC

VARIABLES
    script,       \* "egc" or "test": the script this run executes
    pc,           \* position in the script
    tmp_exists,   \* the file urlretrieve downloaded is in temporary storage
    records,      \* UCD records the iterparse loop has consumed, in order
    last_cp,      \* download_ucd_data: last_cp
    ranges,       \* download_ucd_data: ranges (list of UcdRange)
    warnings,     \* the "Warning: Codepoint range ... is missing" lines printed
    lines,        \* corpus lines the enumerate loop has consumed, in order
    test_cases,   \* download_test_data.py: test_cases
    output_open,  \* open(OUTPUT_PATH, "w") has been executed
    RANGES,       \* the entries written to src/data.rs
    TEST_CASES    \* the entries written to src/test_data.rs

vars == <<script, pc, tmp_exists, records, last_cp, ranges, warnings,
          lines, test_cases, output_open, RANGES, TEST_CASES>>

-----------------------------------------------------------------------------
\* Bounds of the model.
MaxLow == 1        \* the codepoints 0..MaxLow are sampled at the low end
MaxRecords == 3    \* UCD records per run
MaxLines == 1      \* corpus lines per run
MaxTokens == 5     \* tokens per corpus line

\* Program constants.
HangulFirst == 44032       \* 0xac00
HangulLast == 55215        \* 0xd7af
MaxCodepoint == 1114111    \* 0x10ffff

\* Codepoints that record boundaries are drawn from: the low end, both edges
\* of the Hangul block with their outer neighbours, and the last codepoint.
Codepoints ==
    (0 .. MaxLow) \cup {HangulFirst - 1, HangulFirst, HangulLast, HangulLast + 1}
                  \cup {MaxCodepoint}

-----------------------------------------------------------------------------
\* download_egc_data.py: the classifier.

None == "<None>"        \* Python's None
Exit == "<exit(1)>"     \* get_egc_enum printed "Unexpected combination" and called exit(1)

GCB_DEPR == {"EB", "EBG", "EM", "GAZ"}

PlainGcb == {"XX", "LF", "CR", "CN", "L", "V", "T", "LV", "LVT", "SM", "PP", "EX", "RI"}

EnumMapKeys ==
    {<<"XX", "None", "Y">>, <<"XX", "Consonant", "N">>, <<"EX", "Extend", "N">>,
     <<"EX", "Linker", "N">>, <<"ZWJ", "Extend", "N">>}
        \cup {<<gcb, "None", "N">> : gcb \in PlainGcb}

ENUM_MAP ==
    [k \in EnumMapKeys |->
        CASE k = <<"XX", "None", "Y">>      -> "EP"
          [] k = <<"XX", "Consonant", "N">> -> "IN_CO"
          [] k = <<"EX", "Extend", "N">>    -> "IN_EX"
          [] k = <<"EX", "Linker", "N">>    -> "IN_LI"
          [] k = <<"ZWJ", "Extend", "N">>   -> "ZWJ"
          [] OTHER                          -> k[1]]

\* Mutant: an unmapped combination is silently given the default class.
get_egc_enum_defaulting(attrib) ==
    LET gcb == IF attrib.GCB \in GCB_DEPR THEN "XX" ELSE attrib.GCB
        key == <<gcb, attrib.InCB, attrib.ExtPict>>
    IN  IF key \notin EnumMapKeys THEN None
        ELSE IF ENUM_MAP[key] = "XX" THEN None ELSE ENUM_MAP[key]

\* Mutant: the extended-pictographic class is treated as the default too.
get_egc_enum_ep_default(attrib) ==
    LET gcb == IF attrib.GCB \in GCB_DEPR THEN "XX" ELSE attrib.GCB
        key == <<gcb, attrib.InCB, attrib.ExtPict>>
    IN  IF key \notin EnumMapKeys THEN Exit
        ELSE IF ENUM_MAP[key] \in {"XX", "EP"} THEN None ELSE ENUM_MAP[key]

get_egc_enum(attrib) ==
    LET gcb == IF attrib.GCB \in GCB_DEPR THEN "XX" ELSE attrib.GCB
        key == <<gcb, attrib.InCB, attrib.ExtPict>>
    IN  IF key \notin EnumMapKeys THEN Exit
        ELSE IF ENUM_MAP[key] = "XX" THEN None ELSE ENUM_MAP[key]

\* Attribute triples the model's records carry: the default class, the
\* extended-pictographic class, a deprecated alias of the default, a plain
\* class, and a combination ENUM_MAP does not have.
Attribs ==
    {[GCB |-> "XX", InCB |-> "None",   ExtPict |-> "N"],
     [GCB |-> "XX", InCB |-> "None",   ExtPict |-> "Y"],
     [GCB |-> "EB", InCB |-> "None",   ExtPict |-> "N"],
     [GCB |-> "L",  InCB |-> "None",   ExtPict |-> "N"],
     [GCB |-> "L",  InCB |-> "Extend", ExtPict |-> "N"]}

-----------------------------------------------------------------------------
\* download_ucd.py: the merge step of the record loop.

UcdRange(start, end, val) == [start |-> start, end |-> end, val |-> val]

\* Mutant: every span opens a new range.
MergeNever(rs, start, end, val) == Append(rs, UcdRange(start, end, val))

\* Mutant: an adjacent span extends the previous range whatever its value.
MergeAnyValue(rs, start, end, val) ==
    IF Len(rs) > 0 /\ rs[Len(rs)].end = start - 1
    THEN [rs EXCEPT ![Len(rs)].end = end]
    ELSE Append(rs, UcdRange(start, end, val))

\* Mutant: an equal-valued span extends the previous range across a gap.
MergeAcrossGap(rs, start, end, val) ==
    IF Len(rs) > 0 /\ rs[Len(rs)].val = val
    THEN [rs EXCEPT ![Len(rs)].end = end]
    ELSE Append(rs, UcdRange(start, end, val))

Merge(rs, start, end, val) ==
    IF Len(rs) > 0 /\ rs[Len(rs)].end = start - 1 /\ rs[Len(rs)].val = val
    THEN [rs EXCEPT ![Len(rs)].end = end]
    ELSE Append(rs, UcdRange(start, end, val))

-----------------------------------------------------------------------------
\* download_egc_data.py: the Hangul filter and the emitted entries.

\* Mutant: only the ranges wholly inside the block are dropped.
HangulFilterWhollyInside(rs) ==
    LET Keep(r) == ~(r.start >= HangulFirst /\ r.end <= HangulLast)
    IN  SelectSeq(rs, Keep)

HangulFilter(rs) ==
    LET Keep(r) == r.end < HangulFirst \/ r.start > HangulLast
    IN  SelectSeq(rs, Keep)

\* ran(start, count, P::val)
Emit(rs) ==
    [i \in 1..Len(rs) |->
        [start |-> rs[i].start, count |-> rs[i].end - rs[i].start + 1, val |-> rs[i].val]]


-----------------------------------------------------------------------------
\* download_test_data.py: the line parser.

BoundaryMarker == <<"U+00F7">>      \* the token made of the division sign
NoBoundaryMarker == <<"U+00D7">>    \* the token made of the multiplication sign

\* Tokens the model's corpus lines are made of.
Tokens == {BoundaryMarker, NoBoundaryMarker, <<"0", "0", "6", "1">>, <<"0", "3", "0", "8">>}

Lines == UNION {[1..n -> Tokens] : n \in 0..MaxTokens}

HexDigit(c) ==
    CASE c = "0" -> 0 [] c = "1" -> 1 [] c = "2" -> 2 [] c = "3" -> 3
      [] c = "4" -> 4 [] c = "5" -> 5 [] c = "6" -> 6 [] c = "7" -> 7
      [] c = "8" -> 8 [] c = "9" -> 9 [] c = "a" -> 10 [] c = "b" -> 11
      [] c = "c" -> 12 [] c = "d" -> 13 [] c = "e" -> 14 [] c = "f" -> 15

\* int(part, 16)
RECURSIVE ParseHex(_)
ParseHex(part) ==
    IF part = <<>> THEN 0
    ELSE 16 * ParseHex(SubSeq(part, 1, Len(part) - 1)) + HexDigit(part[Len(part)])

\* chr(cp).encode("utf-8")
Utf8Encode(cp) ==
    IF cp <= 127 THEN <<cp>>
    ELSE IF cp <= 2047 THEN <<192 + (cp \div 64), 128 + (cp % 64)>>
    ELSE IF cp <= 65535
         THEN <<224 + (cp \div 4096), 128 + ((cp \div 64) % 64), 128 + (cp % 64)>>
         ELSE <<240 + (cp \div 262144), 128 + ((cp \div 4096) % 64),
                128 + ((cp \div 64) % 64), 128 + (cp % 64)>>

\* bytes.decode("utf-8") of well-formed input: the codepoints, in order
RECURSIVE Utf8Decode(_)
Utf8Decode(bytes) ==
    IF bytes = <<>> THEN <<>>
    ELSE LET b == bytes[1]
             n == IF b < 128 THEN 1 ELSE IF b < 224 THEN 2 ELSE IF b < 240 THEN 3 ELSE 4
             cp == IF n = 1 THEN b
                   ELSE IF n = 2 THEN (b - 192) * 64 + (bytes[2] - 128)
                   ELSE IF n = 3
                        THEN (b - 224) * 4096 + (bytes[2] - 128) * 64 + (bytes[3] - 128)
                        ELSE (b - 240) * 262144 + (bytes[2] - 128) * 4096
                             + (bytes[3] - 128) * 64 + (bytes[4] - 128)
         IN  <<cp>> \o Utf8Decode(SubSeq(bytes, n + 1, Len(bytes)))

\* len(text.encode("utf-8")): the byte length of a decoded text
RECURSIVE ByteLength(_)
ByteLength(text) ==
    IF text = <<>> THEN 0 ELSE Len(Utf8Encode(Head(text))) + ByteLength(Tail(text))

\* line.startswith(marker + " ") and line.endswith(" " + marker)
Delimited(line) ==
    Len(line) >= 2 /\ line[1] = BoundaryMarker /\ line[Len(line)] = BoundaryMarker

\* Mutant: the enclosing markers are left in the line.
StripDelimitersKeeping(line) == line

\* line[2:-2]
StripDelimiters(line) == SubSeq(line, 2, Len(line) - 1)

\* the loop "for part in line.split()"
RECURSIVE ParseParts(_, _, _)
ParseParts(parts, test_str, breaks) ==
    IF parts = <<>> THEN [test_str |-> test_str, breaks |-> breaks]
    ELSE LET part == Head(parts) IN
         IF part = NoBoundaryMarker THEN ParseParts(Tail(parts), test_str, breaks)
         ELSE IF part = BoundaryMarker
              THEN ParseParts(Tail(parts), test_str, Append(breaks, Len(test_str)))
              ELSE ParseParts(Tail(parts), test_str \o Utf8Encode(ParseHex(part)), breaks)

\* the tuple appended to test_cases for an accepted line
TestCase(line_no, line) ==
    LET parsed == ParseParts(StripDelimiters(line), <<>>, <<>>)
    IN  [line_no |-> line_no, text |-> Utf8Decode(parsed.test_str), breaks |-> parsed.breaks]

\* escape_str: \xNN for a codepoint up to 0x7f, \u{NNNN} for the others
escape_str(s) ==
    [i \in 1..Len(s) |-> IF s[i] <= 127 THEN <<"\\x", s[i]>> ELSE <<"\\u", s[i]>>]

-----------------------------------------------------------------------------
Init ==
    /\ script \in {"egc", "test"}
    /\ pc = "fetch"
    /\ tmp_exists = FALSE
    /\ records = <<>>
    /\ last_cp = -1
    /\ ranges = <<>>
    /\ warnings = <<>>
    /\ lines = <<>>
    /\ test_cases = <<>>
    /\ output_open = FALSE
    /\ RANGES = <<>>
    /\ TEST_CASES = <<>>

\* urllib.request.urlretrieve(url): the download lands in a temporary file.
Fetch ==
    /\ pc = "fetch"
    /\ tmp_exists' = TRUE
    /\ pc' = "parse"
    /\ UNCHANGED <<script, records, last_cp, ranges, warnings, lines, test_cases,
                   output_open, RANGES, TEST_CASES>>

\* One iteration of download_ucd_data's loop on a char, reserved,
\* noncharacter or surrogate element.
ParseRecord ==
    /\ script = "egc"
    /\ pc = "parse"
    /\ Len(records) < MaxRecords
    /\ \E start \in Codepoints, end \in Codepoints, attrib \in Attribs :
        /\ start <= end
        /\ start > last_cp
        /\ records' = Append(records, [start |-> start, end |-> end, attrib |-> attrib])
        /\ warnings' = IF start # last_cp + 1
                       THEN Append(warnings, [first |-> last_cp + 1, last |-> start - 1])
                       ELSE warnings
        /\ last_cp' = end
        /\ LET val == get_egc_enum(attrib)
           IN  IF val = Exit
               THEN pc' = "halted" /\ ranges' = ranges
               ELSE /\ pc' = "parse"
                    /\ ranges' = IF val = None THEN ranges
                                 ELSE Merge(ranges, start, end, val)
    /\ UNCHANGED <<script, tmp_exists, lines, test_cases, output_open, RANGES, TEST_CASES>>

\* The end of download_ucd_data: the trailing gap check, os.remove, return.
EndOfStream ==
    /\ script = "egc"
    /\ pc = "parse"
    /\ warnings' = IF last_cp # MaxCodepoint
                   THEN Append(warnings, [first |-> last_cp + 1, last |-> MaxCodepoint])
                   ELSE warnings
    /\ tmp_exists' = FALSE
    /\ pc' = "returned"
    /\ UNCHANGED <<script, records, last_cp, ranges, lines, test_cases,
                   output_open, RANGES, TEST_CASES>>

\* download_egc_data.py after the call: filter, open, write, flush.
WriteTable ==
    /\ script = "egc"
    /\ pc = "returned"
    /\ output_open' = TRUE
    /\ RANGES' = Emit(HangulFilter(ranges))
    /\ pc' = "done"
    /\ UNCHANGED <<script, tmp_exists, records, last_cp, ranges, warnings, lines,
                   test_cases, TEST_CASES>>

\* One iteration of the loop over the corpus lines.
ParseLine ==
    /\ script = "test"
    /\ pc = "parse"
    /\ Len(lines) < MaxLines
    /\ \E line \in Lines :
        /\ lines' = Append(lines, line)
        /\ IF line = <<>>
           THEN pc' = "parse" /\ test_cases' = test_cases
           ELSE IF ~Delimited(line)
                THEN pc' = "halted" /\ test_cases' = test_cases
                ELSE /\ pc' = "parse"
                     /\ test_cases' = Append(test_cases, TestCase(Len(lines) + 1, line))
    /\ UNCHANGED <<script, tmp_exists, records, last_cp, ranges, warnings,
                   output_open, RANGES, TEST_CASES>>

\* The end of the corpus: os.remove(test_path).
EndOfCorpus ==
    /\ script = "test"
    /\ pc = "parse"
    /\ tmp_exists' = FALSE
    /\ pc' = "returned"
    /\ UNCHANGED <<script, records, last_cp, ranges, warnings, lines, test_cases,
                   output_open, RANGES, TEST_CASES>>

\* download_test_data.py after the loop: open, write, flush.
WriteTests ==
    /\ script = "test"
    /\ pc = "returned"
    /\ output_open' = TRUE
    /\ TEST_CASES' = [i \in 1..Len(test_cases) |->
                        [line_no |-> test_cases[i].line_no,
                         text |-> escape_str(test_cases[i].text),
                         breaks |-> test_cases[i].breaks]]
    /\ pc' = "done"
    /\ UNCHANGED <<script, tmp_exists, records, last_cp, ranges, warnings, lines,
                   test_cases, RANGES>>

Next ==
    \/ Fetch
    \/ ParseRecord
    \/ EndOfStream
    \/ WriteTable
    \/ ParseLine
    \/ EndOfCorpus
    \/ WriteTests

Spec == Init /\ [][Next]_vars
-----------------------------------------------------------------------------
\* Vocabulary of the properties.

EgcReturned == script = "egc" /\ pc \in {"returned", "done"}
EgcDone == script = "egc" /\ pc = "done"

Classified(r) == get_egc_enum(r.attrib)
NonDefault(r) == Classified(r) \notin {None, Exit}

\* The normalized triple of the attributes is no key of ENUM_MAP.
Unmapped(attrib) ==
    <<IF attrib.GCB \in GCB_DEPR THEN "XX" ELSE attrib.GCB, attrib.InCB, attrib.ExtPict>>
        \notin DOMAIN ENUM_MAP

\* The range or table entry shares a codepoint with [a, b].
RangeMeets(rg, a, b) == rg.start <= b /\ rg.end >= a
EntryEnd(e) == e.start + e.count - 1
EntryMeets(e, a, b) == e.start <= b /\ EntryEnd(e) >= a

\* Looking a codepoint up in the written table.
Lookup(table, c) ==
    IF \E k \in 1..Len(table) : table[k].start <= c /\ c < table[k].start + table[k].count
    THEN (CHOOSE e \in {table[k] : k \in 1..Len(table)} :
              e.start <= c /\ c < e.start + e.count).val
    ELSE None

\* The codepoints missing before record i, and after the last record.
PrevEnd(i) == IF i = 1 THEN -1 ELSE records[i - 1].end
GapBefore(i) == records[i].start # PrevEnd(i) + 1
LastEnd == IF records = <<>> THEN -1 ELSE records[Len(records)].end

EpAttrib == [GCB |-> "XX", InCB |-> "None", ExtPict |-> "Y"]

ExampleLine ==
    <<BoundaryMarker, <<"0", "0", "6", "1">>, NoBoundaryMarker, <<"0", "3", "0", "8">>,
      BoundaryMarker>>

RECURSIVE Utf8EncodeText(_)
Utf8EncodeText(text) ==
    IF text = <<>> THEN <<>> ELSE Utf8Encode(Head(text)) \o Utf8EncodeText(Tail(text))

-----------------------------------------------------------------------------
\* C1: in the list download_ucd_data returns, every record classified to a
\* non-default value lies inside exactly one range, which carries that value;
\* no two ranges share a codepoint; no range touches a record classified to
\* the default.
C1_ExactlyOneRange ==
    EgcReturned =>
        /\ \A i \in 1..Len(records) :
            LET r == records[i]
                meet == {j \in 1..Len(ranges) : RangeMeets(ranges[j], r.start, r.end)}
            IN  IF NonDefault(r)
                THEN /\ Cardinality(meet) = 1
                     /\ \A j \in meet : /\ ranges[j].start <= r.start
                                        /\ r.end <= ranges[j].end
                                        /\ ranges[j].val = Classified(r)
                ELSE meet = {}
        /\ \A j \in 1..Len(ranges), k \in 1..Len(ranges) :
            j < k => ranges[j].end < ranges[k].start

\* A returned list in which two adjacent records of one non-default value were
\* merged into a single range, from a stream that also held a default record.
C1_Witness ==
    /\ EgcReturned
    /\ \E i \in 1..Len(records) : Classified(records[i]) = None
    /\ \E i \in 1..Len(records) - 1, j \in 1..Len(ranges) :
        /\ NonDefault(records[i])
        /\ Classified(records[i]) = Classified(records[i + 1])
        /\ ranges[j].start = records[i].start
        /\ ranges[j].end = records[i + 1].end

\* C2: consecutive entries of the written table differ in value or are not
\* codepoint-adjacent.
C2_NoUnmergedNeighbours ==
    EgcDone =>
        \A k \in 1..Len(RANGES) - 1 :
            \/ RANGES[k].val # RANGES[k + 1].val
            \/ RANGES[k + 1].start > EntryEnd(RANGES[k]) + 1

\* A written table holding a range merged from two records.
C2_Witness ==
    /\ EgcDone
    /\ \E k \in 1..Len(RANGES), i \in 1..Len(records) - 1 :
        /\ RANGES[k].start = records[i].start
        /\ EntryEnd(RANGES[k]) = records[i + 1].end

\* C3 (as claimed): every non-default codepoint outside the Hangul block is
\* found in the written table with its classified value.
C3_RoundTrip ==
    EgcDone =>
        \A i \in 1..Len(records), c \in Codepoints :
            (/\ records[i].start <= c /\ c <= records[i].end
             /\ (c < HangulFirst \/ c > HangulLast)
             /\ NonDefault(records[i]))
                => Lookup(RANGES, c) = Classified(records[i])

\* C4: a record with an unmapped triple is the last one consumed, the run is
\* halted there, and the output file is never opened or written.
C4_HaltBeforeWrite ==
    script = "egc" =>
        /\ \A i \in 1..Len(records) :
            Unmapped(records[i].attrib)
                => i = Len(records) /\ pc = "halted" /\ ~output_open /\ RANGES = <<>>
        /\ pc = "halted" => ~output_open /\ RANGES = <<>>

\* A run halted by an unmapped triple after it had collected a range.
C4_Witness ==
    /\ script = "egc"
    /\ pc = "halted"
    /\ Len(ranges) >= 1
    /\ Unmapped(records[Len(records)].attrib)

\* C5 (as claimed): the triple classifies to EP and no written entry covers a
\* codepoint of a span so classified.
C5_EpOmitted ==
    /\ get_egc_enum(EpAttrib) = "EP"
    /\ EgcDone =>
        \A i \in 1..Len(records), k \in 1..Len(RANGES) :
            records[i].attrib = EpAttrib
                => ~EntryMeets(RANGES[k], records[i].start, records[i].end)

\* C5 (amended): the triple classifies to EP, a non-default value; a span so
\* classified lies in a returned range of value EP, and in a written entry of
\* value EP unless that range touches the Hangul block.
C5_EpEmitted ==
    /\ get_egc_enum(EpAttrib) = "EP"
    /\ EgcReturned =>
        \A i \in 1..Len(records) :
            records[i].attrib = EpAttrib =>
                \E j \in 1..Len(ranges) :
                    /\ ranges[j].start <= records[i].start
                    /\ records[i].end <= ranges[j].end
                    /\ ranges[j].val = "EP"
                    /\ (EgcDone /\ ~RangeMeets(ranges[j], HangulFirst, HangulLast))
                        => \E k \in 1..Len(RANGES) :
                            /\ RANGES[k].start = ranges[j].start
                            /\ EntryEnd(RANGES[k]) = ranges[j].end
                            /\ RANGES[k].val = "EP"

\* A written table with an EP entry.
C5_Witness ==
    /\ EgcDone
    /\ \E k \in 1..Len(RANGES) : RANGES[k].val = "EP"
    /\ \E i \in 1..Len(records) : records[i].attrib = EpAttrib

\* C6: no written entry shares a codepoint with the Hangul block.
C6_NoHangul ==
    EgcDone =>
        \A k \in 1..Len(RANGES) :
            EntryEnd(RANGES[k]) < HangulFirst \/ RANGES[k].start > HangulLast

\* A written table from which the filter dropped a range reaching across an
\* edge of the block, and kept another.
C6_Witness ==
    /\ EgcDone
    /\ Len(RANGES) >= 1
    /\ \E j \in 1..Len(ranges) :
        /\ RangeMeets(ranges[j], HangulFirst, HangulLast)
        /\ (ranges[j].start < HangulFirst \/ ranges[j].end > HangulLast)

\* C7: every gap is reported with its bounds, a gap does not halt the run
\* (only an unmapped triple does), and no returned range or written entry
\* reaches into a gap, so spans on either side of a gap stay apart.
C7_GapTolerated ==
    script = "egc" =>
        /\ \A i \in 1..Len(records) :
            GapBefore(i) =>
                /\ \E w \in 1..Len(warnings) :
                    warnings[w] = [first |-> PrevEnd(i) + 1, last |-> records[i].start - 1]
                /\ \A j \in 1..Len(ranges) :
                    ~RangeMeets(ranges[j], PrevEnd(i) + 1, records[i].start - 1)
                /\ \A k \in 1..Len(RANGES) :
                    ~EntryMeets(RANGES[k], PrevEnd(i) + 1, records[i].start - 1)
        /\ (EgcReturned /\ LastEnd # MaxCodepoint) =>
                /\ \E w \in 1..Len(warnings) :
                    warnings[w] = [first |-> LastEnd + 1, last |-> MaxCodepoint]
                /\ \A j \in 1..Len(ranges) : ranges[j].end <= LastEnd
                /\ \A k \in 1..Len(RANGES) : EntryEnd(RANGES[k]) <= LastEnd
        /\ pc = "halted" => Unmapped(records[Len(records)].attrib)
        /\ (pc = "parse" /\ warnings # <<>>) => ENABLED EndOfStream
        /\ (pc = "returned" /\ warnings # <<>>) => ENABLED WriteTable

\* A completed run over a stream with a gap between two equal-valued spans,
\* both written.
C7_Witness ==
    /\ EgcDone
    /\ \E i \in 2..Len(records) :
        /\ GapBefore(i)
        /\ NonDefault(records[i])
        /\ Classified(records[i - 1]) = Classified(records[i])
        /\ \E k \in 1..Len(RANGES) : RANGES[k].start = records[i].start
        /\ \E k \in 1..Len(RANGES) : EntryEnd(RANGES[k]) = records[i - 1].end

\* C8 (as claimed): the example line gives the 3-byte text and breaks [0, 3].
C8_BreaksAtEnds ==
    \A n \in 1..Len(test_cases) :
        lines[test_cases[n].line_no] = ExampleLine =>
            /\ Utf8EncodeText(test_cases[n].text) = <<97, 204, 136>>
            /\ test_cases[n].breaks = <<0, 3>>

\* C8 (amended): the example line gives the text U+0061 U+0308, 3 bytes in
\* UTF-8, and no breaks: the enclosing markers are cut before the tokens are
\* read, and the inner marker is the no-boundary one.
C8_NoBreaks ==
    \A n \in 1..Len(test_cases) :
        lines[test_cases[n].line_no] = ExampleLine =>
            /\ test_cases[n].text = <<97, 776>>
            /\ Utf8EncodeText(test_cases[n].text) = <<97, 204, 136>>
            /\ test_cases[n].breaks = <<>>

\* The example line has been parsed.
C8_Witness ==
    \E n \in 1..Len(test_cases) : lines[test_cases[n].line_no] = ExampleLine

\* C9 (as claimed): the breaks of every test case are strictly increasing and
\* lie within [0, byte length of the text].
C9_BreaksIncreasing ==
    \A n \in 1..Len(test_cases) :
        LET breaks == test_cases[n].breaks IN
        /\ \A a \in 1..Len(breaks) - 1 : breaks[a] < breaks[a + 1]
        /\ \A a \in 1..Len(breaks) :
            0 <= breaks[a] /\ breaks[a] <= ByteLength(test_cases[n].text)

\* C10 (as claimed): when the process has terminated, by completion or by a
\* fatal error, the downloaded file is gone from temporary storage.
C10_TempRemoved ==
    pc \in {"done", "halted"} => ~tmp_exists
====
